---- MODULE Spec2Model ----
(***************************************************************************)
(* The SSD data augmentation operations of                                 *)
(* data_generator/ssd_data_augmentation_ops.py: SSDRandomCrop, SSDExpand,  *)
(* SSDPhotometricDistortions and the SSDDataAugmentation chain.            *)
(*                                                                         *)
(* An image is abstracted to its shape and representation                  *)
(* [h, w, ch, dtype, space]; pixel values are not modelled.  A label row   *)
(* is <<class_id, xmin, ymin, xmax, ymax>> in integer pixel coordinates.   *)
(* Scales and IoU bounds are kept in tenths (0.3 is 3, 4.0 is 40), aspect  *)
(* ratios in halves (0.5 is 1, 2.0 is 4), so all arithmetic is exact.      *)
(***************************************************************************)
EXTENDS Integers, Sequences, FiniteSets, TLC

(* ------------------------------ bounds -------------------------------- *)

\* Largest height/width of an image handed directly to a stage.
MaxDim == 3

\* Largest number of label rows of an input.
MaxBoxes == 2

(* --------------------------- small helpers ---------------------------- *)

Min(a, b) == IF a < b THEN a ELSE b

Max(a, b) == IF a > b THEN a ELSE b

\* The absent endpoint of a bound pair (Python's None).
None == 0 - 1

(* ------------------ SSDPhotometricDistortions: set-up ----------------- *)

\* RandomChannelSwap(prob=0.0): TRUE iff the swap can fire.
channel_swap_can_fire == FALSE

\* Every random photometric op is built with prob=0.5: it can fire or not.
random_op_can_fire == TRUE

sequence1_skip_uint8 ==
    << "convert_to_3_channels", "convert_to_float32", "random_brightness",
       "random_contrast", "convert_RGB_to_HSV", "convert_to_float32",
       "random_saturation", "random_hue", "convert_to_uint8",
       "convert_HSV_to_RGB", "random_channel_swap" >>

sequence1 ==
    << "convert_to_3_channels", "convert_to_float32", "random_brightness",
       "random_contrast", "convert_to_uint8", "convert_RGB_to_HSV",
       "convert_to_float32", "random_saturation", "random_hue",
       "convert_to_uint8", "convert_HSV_to_RGB", "random_channel_swap" >>

sequence2 ==
    << "convert_to_3_channels", "convert_to_float32", "random_brightness",
       "convert_to_uint8", "convert_RGB_to_HSV", "convert_to_float32",
       "random_saturation", "random_hue", "convert_to_uint8",
       "convert_HSV_to_RGB", "convert_to_float32", "random_contrast",
       "convert_to_uint8", "random_channel_swap" >>

\* np.random.choice(2): 1 selects sequence1, 0 selects sequence2.
ChooseSequence(c) == IF c = 1 THEN sequence1 ELSE sequence2

(* ----------------- photometric primitives (external) ------------------ *)

\* What each primitive requires of the image it is given.
Requires(op, img) ==
    CASE op = "convert_to_3_channels" -> img.ch \in {1, 3}
      [] op = "convert_to_float32"    -> TRUE
      [] op = "convert_to_uint8"      -> TRUE
      [] op = "random_brightness"     -> img.dtype = "float32" /\ img.space = "RGB"
      [] op = "random_contrast"       -> img.dtype = "float32" /\ img.space = "RGB"
      [] op = "random_saturation"     -> img.dtype = "float32" /\ img.space = "HSV"
      [] op = "random_hue"            -> img.dtype = "float32" /\ img.space = "HSV"
      [] op = "convert_RGB_to_HSV"    ->
            img.dtype = "uint8" /\ img.ch = 3 /\ img.space = "RGB"
      [] op = "convert_HSV_to_RGB"    ->
            img.dtype = "uint8" /\ img.ch = 3 /\ img.space = "HSV"
      [] op = "random_channel_swap"   -> img.ch = 3
      [] OTHER                        -> FALSE

\* The representation of the image each primitive returns.
ApplyOp(op, img) ==
    CASE op = "convert_to_3_channels" -> [img EXCEPT !.ch = 3]
      [] op = "convert_to_float32"    -> [img EXCEPT !.dtype = "float32"]
      [] op = "convert_to_uint8"      -> [img EXCEPT !.dtype = "uint8"]
      [] op = "convert_RGB_to_HSV"    -> [img EXCEPT !.space = "HSV"]
      [] op = "convert_HSV_to_RGB"    -> [img EXCEPT !.space = "RGB"]
      [] OTHER                        -> img

\* The random primitives, which fire or pass the image through.
IsRandomOp(op) ==
    op \in {"random_brightness", "random_contrast", "random_saturation",
            "random_hue", "random_channel_swap"}

\* The outcomes of a primitive's own coin.
FireChoices(op) ==
    IF ~IsRandomOp(op) THEN {TRUE}
    ELSE IF op = "random_channel_swap"
         THEN (IF channel_swap_can_fire THEN {TRUE, FALSE} ELSE {FALSE})
         ELSE (IF random_op_can_fire THEN {TRUE, FALSE} ELSE {FALSE})

(* ---------------------- SSDRandomCrop: set-up ------------------------- *)

sample_space_extra ==
    << <<None, None>>, <<1, None>>, <<3, None>>,
       <<5, None>>, <<7, None>>, <<9, None>>, <<None, 5>> >>

\* BoundGenerator(sample_space=..., weights=None): (lower, upper) IoU bounds.
sample_space ==
    << <<None, None>>, <<1, None>>, <<3, None>>,
       <<5, None>>, <<7, None>>, <<9, None>> >>

crop_patch_coord_generator_wide ==
    [ must_match |-> "h_w", min_scale |-> 3, max_scale |-> 20,
      scale_uniformly |-> FALSE,
      min_aspect_ratio |-> 1, max_aspect_ratio |-> 4 ]

\* PatchCoordinateGenerator(must_match='h_w', min_scale=0.3, max_scale=1.0,
\* scale_uniformly=False, min_aspect_ratio=0.5, max_aspect_ratio=2.0).
crop_patch_coord_generator ==
    [ must_match |-> "h_w", min_scale |-> 3, max_scale |-> 10,
      scale_uniformly |-> FALSE,
      min_aspect_ratio |-> 1, max_aspect_ratio |-> 4 ]

crop_box_filter_none == "none"

\* BoxFilter(overlap_criterion='center_point').
crop_box_filter == "center_point"

\* ImageValidator(overlap_criterion='iou', n_boxes_min=1).
crop_image_validator == [ overlap_criterion |-> "iou", n_boxes_min |-> 1 ]

random_crop_always ==
    [ n_trials_max |-> 50, clip_boxes |-> FALSE, prob |-> 1000 ]

random_crop_short_batch ==
    [ n_trials_max |-> 49, clip_boxes |-> FALSE, prob |-> 857 ]

random_crop_clipping ==
    [ n_trials_max |-> 50, clip_boxes |-> TRUE, prob |-> 857 ]

\* RandomPatchInf(..., n_trials_max=50, clip_boxes=False, prob=0.857);
\* prob is kept in thousandths.
random_crop == [ n_trials_max |-> 50, clip_boxes |-> FALSE, prob |-> 857 ]

(* ------------------------ SSDExpand: set-up --------------------------- *)

expand_patch_coord_generator_free ==
    [ must_match |-> "h_w", min_scale |-> 10, max_scale |-> 40,
      scale_uniformly |-> FALSE,
      min_aspect_ratio |-> None, max_aspect_ratio |-> None ]

\* PatchCoordinateGenerator(must_match='h_w', min_scale=1.0, max_scale=4.0,
\* scale_uniformly=True); no aspect ratio bounds are passed.
expand_patch_coord_generator ==
    [ must_match |-> "h_w", min_scale |-> 10, max_scale |-> 40,
      scale_uniformly |-> TRUE,
      min_aspect_ratio |-> None, max_aspect_ratio |-> None ]

\* RandomPatch(box_filter=None, image_validator=None, n_trials_max=1,
\* clip_boxes=False, prob=0.5, ...); prob is kept in thousandths.
expand ==
    [ box_filter |-> "none", image_validator |-> "none", n_trials_max |-> 1,
      clip_boxes |-> FALSE, prob |-> 500 ]

(* --------------------- SSDDataAugmentation: set-up -------------------- *)

\* img_height=300, img_width=300.
img_height == 300

img_width == 300

sequence_crop_first ==
    << "photometric_distortions", "random_crop", "expand",
       "random_flip", "resize" >>

\* self.sequence of SSDDataAugmentation.
sequence ==
    << "photometric_distortions", "expand", "random_crop",
       "random_flip", "resize" >>

(* ------------------- patch sampling (external) ------------------------ *)

\* Patch heights (or widths) a scale in [min_scale, max_scale] gives for a
\* reference dimension d.
ScaledDims(g, d) ==
    { x \in 1..((g.max_scale * d) \div 10) :
        g.min_scale * d <= 10 * x /\ 10 * x <= g.max_scale * d }

\* Top-left positions along one axis: the patch inside the image when it is
\* not larger, the image inside the patch otherwise.
Positions(d, p) == IF d - p >= 0 THEN 0..(d - p) ELSE (d - p)..0

\* PatchCoordinateGenerator.__call__ for an image of height H and width W:
\* the patches <<ymin, xmin, height, width>> it can return.  With
\* scale_uniformly one scale is applied to both dimensions.
PatchCoordinateGenerator(g, H, W) ==
    LET sizes == { s \in ScaledDims(g, H) \X ScaledDims(g, W) :
                     g.scale_uniformly => s[1] * W = s[2] * H }
    IN  UNION { { [ymin |-> y, xmin |-> x, h |-> s[1], w |-> s[2]] :
                    y \in Positions(H, s[1]), x \in Positions(W, s[2]) } :
                s \in sizes }

\* The aspect ratio (width / height) test of the sampling loop.
AspectRatioOk(g, p) ==
    /\ (g.min_aspect_ratio # None => g.min_aspect_ratio * p.h <= 2 * p.w)
    /\ (g.max_aspect_ratio # None => 2 * p.w <= g.max_aspect_ratio * p.h)

(* ------------------ boxes against a patch (external) ------------------ *)

\* Intersection area of label row b with patch p, both in image coordinates.
Intersection(b, p) ==
    LET iw == Min(b[4], p.xmin + p.w) - Max(b[2], p.xmin)
        ih == Min(b[5], p.ymin + p.h) - Max(b[3], p.ymin)
    IN  Max(0, iw) * Max(0, ih)

\* Union area of label row b with patch p.
UnionArea(b, p) ==
    (b[4] - b[2]) * (b[5] - b[3]) + p.w * p.h - Intersection(b, p)

\* lower <= IoU(b, p) <= upper, an absent endpoint being unconstrained.
IoUWithin(b, p, bounds) ==
    /\ (bounds[1] # None =>
            bounds[1] * UnionArea(b, p) <= 10 * Intersection(b, p))
    /\ (bounds[2] # None =>
            10 * Intersection(b, p) <= bounds[2] * UnionArea(b, p))

\* ImageValidator.__call__: enough boxes meet the overlap bounds.
ImageValidator(v, bounds, p, lbls) ==
    Cardinality({ i \in 1..Len(lbls) : IoUWithin(lbls[i], p, bounds) })
        >= v.n_boxes_min

\* The centre point of label row b lies within patch p, borders included.
CenterPointInside(b, p) ==
    /\ 2 * p.xmin <= b[2] + b[4] /\ b[2] + b[4] <= 2 * (p.xmin + p.w)
    /\ 2 * p.ymin <= b[3] + b[5] /\ b[3] + b[5] <= 2 * (p.ymin + p.h)

\* The rows from index i on whose centre point lies within p, in their order.
RECURSIVE FilterRows(_, _, _)
FilterRows(lbls, p, i) ==
    IF i > Len(lbls) THEN << >>
    ELSE IF CenterPointInside(lbls[i], p)
         THEN << lbls[i] >> \o FilterRows(lbls, p, i + 1)
         ELSE FilterRows(lbls, p, i + 1)

\* BoxFilter.__call__ for the configured criterion ("none": no filter).
BoxFilter(criterion, p, lbls) ==
    IF criterion = "center_point" THEN FilterRows(lbls, p, 1) ELSE lbls

\* Label row b re-expressed relative to the top-left corner of patch p.
Translate(b, p) ==
    << b[1], b[2] - p.xmin, b[3] - p.ymin, b[4] - p.xmin, b[5] - p.ymin >>

\* Label row b (patch coordinates) clipped to the patch.
Clip(b, p) ==
    << b[1], Max(0, Min(b[2], p.w)), Max(0, Min(b[3], p.h)),
             Max(0, Min(b[4], p.w)), Max(0, Min(b[5], p.h)) >>

\* The labels a patch is returned with: filtered against the patch, moved to
\* the patch's origin, clipped only if clip_boxes is set.
PatchLabels(criterion, clip_boxes, p, lbls) ==
    LET kept == BoxFilter(criterion, p, lbls)
    IN  [ i \in 1..Len(kept) |->
            IF clip_boxes THEN Clip(Translate(kept[i], p), p)
                          ELSE Translate(kept[i], p) ]

\* The image a patch is returned with: the patch's canvas.
PatchImage(img, p) == [img EXCEPT !.h = p.h, !.w = p.w]

(* ---------------------- flip and resize (external) -------------------- *)

\* RandomFlip(dim='horizontal'): reflect a label row across the vertical axis.
FlipRow(b, W) == << b[1], W - b[4], b[3], W - b[2], b[5] >>

\* n / d rounded to the nearest integer, halves to the even neighbour.
RoundDiv(n, d) ==
    LET q == n \div d
        r == n % d
    IN  IF 2 * r < d THEN q
        ELSE IF 2 * r > d THEN q + 1
        ELSE IF q % 2 = 0 THEN q ELSE q + 1

\* Resize: a label row rescaled by the ratio of the pixel dimensions.
ResizeRow(b, H, W, outH, outW) ==
    << b[1], RoundDiv(b[2] * outW, W), RoundDiv(b[3] * outH, H),
             RoundDiv(b[4] * outW, W), RoundDiv(b[5] * outH, H) >>

(* ------------------- SSDDataAugmentation: the rest -------------------- *)

\* RandomFlip(dim='horizontal', prob=0.5); prob is kept in thousandths.
random_flip == [ dim |-> "horizontal", prob |-> 500 ]

\* ResizeRandomInterp(height=img_height, width=img_width,
\* interpolation_modes=[...]); no box filter is passed.
resize ==
    [ height |-> img_height, width |-> img_width,
      interpolation_modes |->
          { "INTER_NEAREST", "INTER_LINEAR", "INTER_CUBIC", "INTER_AREA",
            "INTER_LANCZOS4" } ]

(* ------------------------------ inputs -------------------------------- *)

\* An 8-bit RGB image of the given shape.
Uint8Image(H, W, C) ==
    [ h |-> H, w |-> W, ch |-> C, dtype |-> "uint8", space |-> "RGB" ]

\* Boxes <<xmin, ymin, xmax, ymax>> inside an H x W image: the whole image
\* and its last pixel.
BoxCandidates(H, W) ==
    { <<0, 0, W, H>>, <<W - 1, H - 1, W, H>> }

\* The label arrays of at most MaxBoxes rows; the class id of a row is its
\* position, which makes the rows of one input distinct.
LabelSets(H, W) ==
    UNION { { [ i \in 1..n |-> << i >> \o f[i] ] :
                f \in [1..n -> BoxCandidates(H, W)] } : n \in 0..MaxBoxes }

\* Shapes <<height, width>> of the images handed directly to a stage.
StageShapes == (1..MaxDim) \X (1..MaxDim)

\* Shapes <<height, width>> of the images handed to the whole chain.
PipelineShapes == { <<1, 2>> }

\* The label arrays handed to the whole chain: no box, and one box covering
\* the image.
PipelineLabelSets(H, W) ==
    { << >>,
      << <<1, 0, 0, W, H>> >> }

(* ------------------------------- state -------------------------------- *)

VARIABLES
    entry,      \* the callable that was invoked
    pc,         \* the stage (or loop) the call is in; "done" once returned
    s_idx,      \* index into self.sequence of SSDDataAugmentation (0: none)
    stages,     \* the stages that have returned, in order
    image,      \* the current image
    labels,     \* the current labels
    in_image,   \* the image the call was given
    in_labels,  \* the labels the call was given
    p_choice,   \* photometric: np.random.choice(2), None before the draw
    p_idx,      \* photometric: index of the next transform of the sequence
    p_ops,      \* photometric: the transforms applied so far
    p_err,      \* photometric: a transform was given an image it cannot take
    e_trials,   \* expand: patches sampled
    e_patch,    \* expand: the patch returned (h = 0: none)
    e_result,   \* expand: "none", "patch" or "input"
    c_bounds,   \* crop: the validator's current bounds
    c_n,        \* crop: trials made in the current batch
    c_failed,   \* crop: a batch of this call has used up its trials
    c_used,     \* crop: the bounds the latest trial was validated under
    c_patch,    \* crop: the patch returned (h = 0: none)
    c_result    \* crop: "none", "patch" or "input"

vars ==
    << entry, pc, s_idx, stages, image, labels, in_image, in_labels,
       p_choice, p_idx, p_ops, p_err, e_trials, e_patch, e_result,
       c_bounds, c_n, c_failed, c_used, c_patch, c_result >>

photo_vars == << p_choice, p_idx, p_ops, p_err >>

expand_vars == << e_trials, e_patch, e_result >>

crop_vars == << c_bounds, c_n, c_failed, c_used, c_patch, c_result >>

input_vars == << entry, in_image, in_labels >>

NoPatch == [ymin |-> 0, xmin |-> 0, h |-> 0, w |-> 0]

NoBounds == << None, None >>

\* The state a call of callable e starts in, for the given input.
Start(e, first, img, lbls) ==
    /\ entry = e
    /\ pc = first
    /\ s_idx = IF e = "SSDDataAugmentation" THEN 1 ELSE 0
    /\ stages = << >>
    /\ image = img /\ in_image = img
    /\ labels = lbls /\ in_labels = lbls
    /\ p_choice = None /\ p_idx = 0 /\ p_ops = << >> /\ p_err = FALSE
    /\ e_trials = 0 /\ e_patch = NoPatch /\ e_result = "none"
    /\ c_bounds = NoBounds /\ c_n = 0 /\ c_failed = FALSE /\ c_used = NoBounds
    /\ c_patch = NoPatch /\ c_result = "none"

\* SSDDataAugmentation.__call__(image, labels).
Init ==
    \E s \in PipelineShapes : \E l \in PipelineLabelSets(s[1], s[2]) :
        Start("SSDDataAugmentation", sequence[1], Uint8Image(s[1], s[2], 3), l)

\* SSDRandomCrop.__call__(image, labels).
InitCrop ==
    \E s \in StageShapes : \E l \in LabelSets(s[1], s[2]) :
        Start("SSDRandomCrop", "random_crop", Uint8Image(s[1], s[2], 3), l)

\* SSDRandomCrop.__call__(image, labels) on an image without boxes, with one
\* box covering the image, or with one box on its last pixel.
InitCropFair ==
    \E s \in StageShapes : \E b \in BoxCandidates(s[1], s[2]) :
        \E l \in { << >>, << << 1 >> \o b >> } :
            Start("SSDRandomCrop", "random_crop", Uint8Image(s[1], s[2], 3), l)

\* SSDExpand.__call__(image, labels).
InitExpand ==
    \E s \in StageShapes : \E l \in LabelSets(s[1], s[2]) :
        Start("SSDExpand", "expand", Uint8Image(s[1], s[2], 3), l)

\* SSDPhotometricDistortions.__call__(image, labels).
InitPhoto ==
    \E s \in StageShapes, c \in {1, 3} : \E l \in LabelSets(s[1], s[2]) :
        Start("SSDPhotometricDistortions", "photometric_distortions",
              Uint8Image(s[1], s[2], c), l)

(* ------------------------------ actions ------------------------------- *)

\* A stage returns: inside SSDDataAugmentation the for loop moves on to the
\* next transform of self.sequence, otherwise the call is over.
Return(stage) ==
    /\ stages' = Append(stages, stage)
    /\ IF entry = "SSDDataAugmentation" /\ s_idx < Len(sequence)
       THEN s_idx' = s_idx + 1 /\ pc' = sequence[s_idx + 1]
       ELSE s_idx' = s_idx /\ pc' = "done"

\* The frame of a stage (its local state) is observable once the stage has
\* returned only when the stage was the callable invoked; inside
\* SSDDataAugmentation the frame is gone when the for loop moves on.
KeepFrame == entry # "SSDDataAugmentation"

PhotoFrame(c, i, ops, err) ==
    /\ p_choice' = IF KeepFrame THEN c ELSE None
    /\ p_idx' = IF KeepFrame THEN i ELSE 0
    /\ p_ops' = IF KeepFrame THEN ops ELSE << >>
    /\ p_err' = IF KeepFrame THEN err ELSE FALSE

ExpandFrame(n, p, r) ==
    /\ e_trials' = IF KeepFrame THEN n ELSE 0
    /\ e_patch' = IF KeepFrame THEN p ELSE NoPatch
    /\ e_result' = IF KeepFrame THEN r ELSE "none"

CropFrame(b, n, k, u, p, r) ==
    /\ c_bounds' = IF KeepFrame THEN b ELSE NoBounds
    /\ c_n' = IF KeepFrame THEN n ELSE 0
    /\ c_failed' = IF KeepFrame THEN k ELSE FALSE
    /\ c_used' = IF KeepFrame THEN u ELSE NoBounds
    /\ c_patch' = IF KeepFrame THEN p ELSE NoPatch
    /\ c_result' = IF KeepFrame THEN r ELSE "none"

(* SSDPhotometricDistortions.__call__ *)

\* if np.random.choice(2): pick the sequence to run.
PhotoChoose ==
    /\ pc = "photometric_distortions"
    /\ \E c \in {0, 1} : p_choice' = c
    /\ p_idx' = 1
    /\ pc' = "photo_loop"
    /\ UNCHANGED << s_idx, stages, image, labels, p_ops, p_err >>
    /\ UNCHANGED << input_vars, expand_vars, crop_vars >>

PhotoLoopNext_skipping(i) == i + 2

\* for transform in self.sequenceN: the index of the next transform.
PhotoLoopNext(i) == i + 1

\* image, labels = transform(image, labels) for the next transform of the
\* chosen sequence.  The primitives return the labels they are given.
PhotoStep ==
    /\ pc = "photo_loop"
    /\ p_idx <= Len(ChooseSequence(p_choice))
    /\ LET op == ChooseSequence(p_choice)[p_idx]
       IN  /\ \E fire \in FireChoices(op) :
                image' = IF fire THEN ApplyOp(op, image) ELSE image
           /\ p_err' = (p_err \/ ~Requires(op, image))
           /\ p_ops' = Append(p_ops, op)
    /\ p_idx' = PhotoLoopNext(p_idx)
    /\ UNCHANGED << pc, s_idx, stages, labels, p_choice >>
    /\ UNCHANGED << input_vars, expand_vars, crop_vars >>

\* return image, labels
PhotoReturn ==
    /\ pc = "photo_loop"
    /\ p_idx > Len(ChooseSequence(p_choice))
    /\ Return("photometric_distortions")
    /\ PhotoFrame(p_choice, p_idx, p_ops, p_err)
    /\ UNCHANGED << image, labels >>
    /\ UNCHANGED << input_vars, expand_vars, crop_vars >>

NextPhoto == PhotoChoose \/ PhotoStep \/ PhotoReturn

(* SSDExpand.__call__ : self.expand(image, labels) *)

\* With probability prob: sample one patch and return the image placed on
\* the patch's canvas.  No validator is configured, so the first patch is
\* accepted; the labels move to the patch's origin.
ExpandPatch ==
    /\ pc = "expand"
    /\ expand.prob > 0
    /\ \E p \in PatchCoordinateGenerator(expand_patch_coord_generator,
                                         image.h, image.w) :
         /\ ExpandFrame(e_trials + 1, p, "patch")
         /\ image' = PatchImage(image, p)
         /\ labels' = PatchLabels(expand.box_filter, expand.clip_boxes,
                                  p, labels)
    /\ Return("expand")
    /\ UNCHANGED << input_vars, photo_vars, crop_vars >>

\* With probability 1 - prob: return the input unaltered.
ExpandReturnInput ==
    /\ pc = "expand"
    /\ expand.prob < 1000
    /\ ExpandFrame(e_trials, e_patch, "input")
    /\ Return("expand")
    /\ UNCHANGED << image, labels >>
    /\ UNCHANGED << input_vars, photo_vars, crop_vars >>

NextExpand == ExpandPatch \/ ExpandReturnInput

(* SSDRandomCrop.__call__ : self.random_crop(image, labels) *)

\* Top of the loop, with probability 1 - prob: the original image is
\* returned as is.  The top is reached at the start of the call and again
\* after every n_trials_max failed trials.
CropReturnInput ==
    /\ pc = "random_crop"
    /\ random_crop.prob < 1000
    /\ CropFrame(c_bounds, c_n, c_failed, c_used, c_patch, "input")
    /\ Return("random_crop")
    /\ UNCHANGED << image, labels >>
    /\ UNCHANGED << input_vars, photo_vars, expand_vars >>

\* Top of the loop, with probability prob: the bound generator samples new
\* IoU bounds for the validator and a batch of trials starts.
CropDrawBounds ==
    /\ pc = "random_crop"
    /\ random_crop.prob > 0
    /\ \E k \in 1..Len(sample_space) : c_bounds' = sample_space[k]
    /\ c_n' = 0
    /\ pc' = "crop_trial"
    /\ UNCHANGED << s_idx, stages, image, labels >>
    /\ UNCHANGED << c_failed, c_used, c_patch, c_result >>
    /\ UNCHANGED << input_vars, photo_vars, expand_vars >>

\* A sampled patch is valid: its aspect ratio is within the generator's
\* bounds and the validator accepts it under the given bounds.
PatchValid(p, bounds, lbls) ==
    /\ AspectRatioOk(crop_patch_coord_generator, p)
    /\ ImageValidator(crop_image_validator, bounds, p, lbls)

\* One trial that finds a valid patch: the crop is returned.
CropTrialAccept ==
    /\ pc = "crop_trial"
    /\ c_n < Max(1, random_crop.n_trials_max)
    /\ \E p \in PatchCoordinateGenerator(crop_patch_coord_generator,
                                         image.h, image.w) :
         /\ PatchValid(p, c_bounds, labels)
         /\ CropFrame(c_bounds, c_n + 1, c_failed, c_bounds, p, "patch")
         /\ image' = PatchImage(image, p)
         /\ labels' = PatchLabels(crop_box_filter, random_crop.clip_boxes,
                                  p, labels)
    /\ Return("random_crop")
    /\ UNCHANGED << input_vars, photo_vars, expand_vars >>

\* One trial whose patch is not valid; after the last trial of the batch the
\* loop is back at its top.
CropTrialReject ==
    /\ pc = "crop_trial"
    /\ c_n < Max(1, random_crop.n_trials_max)
    /\ { p \in PatchCoordinateGenerator(crop_patch_coord_generator,
                                        image.h, image.w) :
           ~PatchValid(p, c_bounds, labels) } # {}
    /\ c_n' = c_n + 1
    /\ c_used' = c_bounds
    /\ IF c_n + 1 >= Max(1, random_crop.n_trials_max)
       THEN pc' = "random_crop" /\ c_failed' = TRUE
       ELSE pc' = "crop_trial" /\ c_failed' = c_failed
    /\ UNCHANGED << s_idx, stages, image, labels >>
    /\ UNCHANGED << c_bounds, c_patch, c_result >>
    /\ UNCHANGED << input_vars, photo_vars, expand_vars >>

NextCrop ==
    CropReturnInput \/ CropDrawBounds \/ CropTrialAccept \/ CropTrialReject

(* RandomFlip and ResizeRandomInterp, as SSDDataAugmentation uses them *)

\* With probability prob: mirror the image and the boxes horizontally.
FlipApply ==
    /\ pc = "random_flip"
    /\ random_flip.prob > 0
    /\ labels' = [ i \in 1..Len(labels) |-> FlipRow(labels[i], image.w) ]
    /\ Return("random_flip")
    /\ UNCHANGED image
    /\ UNCHANGED << input_vars, photo_vars, expand_vars, crop_vars >>

\* With probability 1 - prob: pass the input through.
FlipSkip ==
    /\ pc = "random_flip"
    /\ random_flip.prob < 1000
    /\ Return("random_flip")
    /\ UNCHANGED << image, labels >>
    /\ UNCHANGED << input_vars, photo_vars, expand_vars, crop_vars >>

\* Resize to height x width with a randomly chosen interpolation mode; the
\* boxes are rescaled by the same ratios and are neither filtered nor clipped.
Resize ==
    /\ pc = "resize"
    /\ \E mode \in resize.interpolation_modes :
         /\ image' = [image EXCEPT !.h = resize.height, !.w = resize.width]
         /\ labels' = [ i \in 1..Len(labels) |->
                          ResizeRow(labels[i], image.h, image.w,
                                    resize.height, resize.width) ]
    /\ Return("resize")
    /\ UNCHANGED << input_vars, photo_vars, expand_vars, crop_vars >>

\* SSDDataAugmentation.__call__: every transform of self.sequence in turn.
Next ==
    \/ PhotoChoose \/ PhotoStep \/ PhotoReturn
    \/ ExpandPatch \/ ExpandReturnInput
    \/ CropReturnInput \/ CropDrawBounds \/ CropTrialAccept \/ CropTrialReject
    \/ FlipApply \/ FlipSkip
    \/ Resize

Spec == Init /\ [][Next]_vars

SpecCrop == InitCrop /\ [][NextCrop]_vars

\* The random draws are fair: a trial is eventually made while the batch
\* lasts, and an outcome of the coin at the top of the loop that is possible
\* again and again eventually comes up.
SpecCropFair ==
    /\ InitCropFair /\ [][NextCrop]_vars
    /\ WF_vars(CropTrialAccept \/ CropTrialReject)
    /\ SF_vars(CropReturnInput)

SpecExpand == InitExpand /\ [][NextExpand]_vars

SpecPhoto == InitPhoto /\ [][NextPhoto]_vars

(* ====================================================================== *)
(*                               properties                               *)
(* ====================================================================== *)

(* ----------------------------- the chain ------------------------------ *)

\* C1: every call of SSDDataAugmentation runs photometric distortion,
\* expansion, random crop, horizontal flip and resize, each once and in this
\* order: the stages that have returned are always a prefix of this list, and
\* the call returns exactly when the whole list has run, with the image that
\* resize produced.
C1_StagesInOrder ==
    LET order == << "photometric_distortions", "expand", "random_crop",
                    "random_flip", "resize" >>
    IN  /\ Len(stages) <= Len(order)
        /\ stages = SubSeq(order, 1, Len(stages))
        /\ (pc = "done") = (stages = order)
        /\ (pc # "done" => pc \in {"photo_loop", "crop_trial"}
                            \/ pc = order[Len(stages) + 1])
        /\ (pc = "done" => image.h = 300 /\ image.w = 300)

\* A call of the chain has returned after expanding and cropping its input.
C1_Witness ==
    /\ entry = "SSDDataAugmentation" /\ pc = "done"
    /\ Len(stages) = 5
    /\ in_labels # << >> /\ labels = << >>

\* C2 as stated: the chain returns no more boxes than it was given and every
\* returned box has all four coordinates within [0, 300] x [0, 300].
C2_BoxesInsideOutput ==
    pc = "done" =>
        /\ Len(labels) <= Len(in_labels)
        /\ \A i \in 1..Len(labels) :
             /\ 0 <= labels[i][2] /\ labels[i][4] <= 300
             /\ 0 <= labels[i][3] /\ labels[i][5] <= 300

\* C2 amended: the chain returns no more boxes than it was given and the
\* centre point of every returned box lies within [0, 300] x [0, 300]; the
\* corners of a returned box are not clipped and can lie outside.
C2_CentresInsideOutput ==
    pc = "done" =>
        /\ Len(labels) <= Len(in_labels)
        /\ \A i \in 1..Len(labels) :
             /\ 0 <= labels[i][2] + labels[i][4]
             /\ labels[i][2] + labels[i][4] <= 2 * 300
             /\ 0 <= labels[i][3] + labels[i][5]
             /\ labels[i][3] + labels[i][5] <= 2 * 300

\* The chain has returned a box that reaches beyond the 300 x 300 output.
C2_Witness ==
    /\ pc = "done" /\ Len(labels) = 1
    /\ (labels[1][2] < 0 \/ labels[1][4] > 300)

(* --------------------------- SSDRandomCrop ---------------------------- *)

\* C3 as stated: a call that returns the input unchanged has made no patch
\* trial at all.
C3_InputOnlyBeforeTrials ==
    (pc = "done" /\ c_result = "input") => (c_n = 0 /\ ~c_failed)

\* C3 amended: the input is returned unchanged only on the 1 - prob branch at
\* the top of the loop, which is taken before the first trial or right after a
\* batch has failed all of its 50 trials; never in the middle of a batch, and
\* the pair returned is the pair given.
C3_InputOnlyBetweenBatches ==
    (pc = "done" /\ c_result = "input") =>
        /\ (c_n = 0 /\ ~c_failed) \/ (c_n = 50 /\ c_failed)
        /\ image = in_image /\ labels = in_labels
        /\ c_patch = NoPatch

\* A call returned its input after a batch of failed trials although a box
\* was there to crop around.
C3_Witness ==
    /\ pc = "done" /\ c_result = "input"
    /\ c_failed /\ in_labels # << >>

\* C4: under fair random draws every call of SSDRandomCrop returns, with a
\* validated crop or with its input unaltered, whatever the labels.
C4_CropReturns ==
    <>( /\ pc = "done"
        /\ \/ c_result = "patch" /\ PatchValid(c_patch, c_bounds, in_labels)
           \/ c_result = "input" /\ image = in_image /\ labels = in_labels )

\* A call on an image without boxes, for which the validator accepts no
\* patch, has returned after a failed batch.
C4_Witness ==
    /\ pc = "done" /\ c_result = "input"
    /\ in_labels = << >> /\ c_failed /\ c_n = 50

\* C5: a crop returns exactly the input boxes whose centre point lies within
\* the patch (borders included), in their input order, each moved by the
\* patch's top-left corner and not clipped.
C5_CropLabels ==
    (pc = "done" /\ c_result = "patch") =>
        LET x0 == c_patch.xmin
            y0 == c_patch.ymin
            x1 == c_patch.xmin + c_patch.w
            y1 == c_patch.ymin + c_patch.h
            inside(b) ==
                /\ 2 * x0 <= b[2] + b[4] /\ b[2] + b[4] <= 2 * x1
                /\ 2 * y0 <= b[3] + b[5] /\ b[3] + b[5] <= 2 * y1
        IN  \* every returned row is an input row, moved and not clipped
            /\ \A k \in 1..Len(labels) :
                 /\ labels[k][1] \in 1..Len(in_labels)
                 /\ LET b == in_labels[labels[k][1]]
                    IN  labels[k] = << b[1], b[2] - x0, b[3] - y0,
                                             b[4] - x0, b[5] - y0 >>
            \* in the input order, no row twice
            /\ \A k \in 1..(Len(labels) - 1) : labels[k][1] < labels[k + 1][1]
            \* a row is returned iff its centre is within the patch
            /\ \A j \in 1..Len(in_labels) :
                 inside(in_labels[j]) <=>
                     \E k \in 1..Len(labels) : labels[k][1] = j

\* A crop kept a box that reaches beyond the cropped image (its centre is on
\* the patch's border) and dropped another box.
C5_Witness ==
    /\ pc = "done" /\ c_result = "patch"
    /\ Len(in_labels) = 2 /\ Len(labels) = 1
    /\ labels[1][4] > image.w
    /\ labels[1][2] + labels[1][4] = 2 * image.w

\* C6: the image SSDRandomCrop returns is no higher and no wider than its
\* input; a crop's patch has height and width between 0.3 and 1.0 times the
\* input's, lies inside the input image, and has a width/height ratio within
\* [0.5, 2.0].
C6_CropGeometry ==
    pc = "done" =>
        /\ image.h <= in_image.h /\ image.w <= in_image.w
        /\ c_result = "patch" =>
             /\ image.h = c_patch.h /\ image.w = c_patch.w
             /\ 3 * in_image.h <= 10 * c_patch.h /\ c_patch.h <= in_image.h
             /\ 3 * in_image.w <= 10 * c_patch.w /\ c_patch.w <= in_image.w
             /\ 0 <= c_patch.ymin /\ c_patch.ymin + c_patch.h <= in_image.h
             /\ 0 <= c_patch.xmin /\ c_patch.xmin + c_patch.w <= in_image.w
             /\ c_patch.h <= 2 * c_patch.w /\ c_patch.w <= 2 * c_patch.h

\* A crop smaller than a 3 x 3 input, whose patch is twice as wide as high,
\* found after a trial of the same batch had failed.
C6_Witness ==
    /\ pc = "done" /\ c_result = "patch"
    /\ in_image.h = 3 /\ in_image.w = 3
    /\ c_patch.h = 1 /\ c_patch.w = 2 /\ c_n > 1

\* C9: trials come in batches.  A batch has at most 50 trials; its bounds are
\* one of the six pairs of the sample space; every trial is validated under
\* the bounds of its batch; new bounds are drawn only at the start of the call
\* or after all 50 trials of the batch have failed; and a crop is returned
\* only for a patch that is valid under the current bounds.
C9_Batches ==
    /\ [](/\ c_n <= 50
          /\ c_bounds \in { <<None, None>>, <<1, None>>, <<3, None>>,
                            <<5, None>>, <<7, None>>, <<9, None>> }
          /\ (pc \in {"random_crop", "crop_trial"} /\ c_n >= 1
                => c_used = c_bounds)
          /\ (c_result = "patch"
                => /\ c_used = c_bounds
                   /\ PatchValid(c_patch, c_bounds, in_labels)))
    /\ [][ (pc = "random_crop" /\ pc' = "crop_trial")
             => /\ (c_n = 0 /\ ~c_failed) \/ (c_n = 50 /\ c_failed)
                /\ c_result = "none" /\ c_n' = 0 ]_vars
    /\ [][ c_bounds' # c_bounds
             => pc = "random_crop" /\ pc' = "crop_trial" ]_vars

\* A crop was returned in a later batch, under the bounds (0.9, None), after
\* an earlier batch had failed.
C9_Witness ==
    /\ pc = "done" /\ c_result = "patch"
    /\ c_failed /\ c_bounds = <<9, None>> /\ c_n >= 2

(* ----------------------------- SSDExpand ------------------------------ *)

\* C7: SSDExpand returns its input unaltered, without a trial, or makes one
\* trial and returns a canvas whose height and width are the input's times
\* one factor in [1.0, 4.0] with the input image inside it; then every input
\* box is returned, in order, moved by the image's offset on the canvas, and
\* a box inside the input image is inside the canvas.
C7_Expand ==
    pc = "done" =>
        /\ e_result \in {"input", "patch"}
        /\ e_result = "input" =>
             e_trials = 0 /\ image = in_image /\ labels = in_labels
        /\ e_result = "patch" =>
             LET dx == 0 - e_patch.xmin
                 dy == 0 - e_patch.ymin
             IN  /\ e_trials = 1
                 /\ image.h * in_image.w = image.w * in_image.h
                 /\ in_image.h <= image.h /\ image.h <= 4 * in_image.h
                 /\ in_image.w <= image.w /\ image.w <= 4 * in_image.w
                 /\ 0 <= dx /\ dx + in_image.w <= image.w
                 /\ 0 <= dy /\ dy + in_image.h <= image.h
                 /\ Len(labels) = Len(in_labels)
                 /\ \A i \in 1..Len(labels) :
                      LET b == in_labels[i]
                      IN  /\ labels[i] = << b[1], b[2] + dx, b[3] + dy,
                                                  b[4] + dx, b[5] + dy >>
                          /\ 0 <= labels[i][2] /\ labels[i][4] <= image.w
                          /\ 0 <= labels[i][3] /\ labels[i][5] <= image.h

\* An image with two boxes was placed off the origin of a canvas four times
\* its size.
C7_Witness ==
    /\ pc = "done" /\ e_result = "patch"
    /\ image.h = 4 * in_image.h /\ in_image.w = 2
    /\ Len(labels) = 2 /\ e_patch.xmin < 0 /\ e_patch.ymin < 0

(* ---------------------- SSDPhotometricDistortions --------------------- *)

\* C8: a call runs one of the two sequences, whole and in its listed order,
\* and the labels are the ones it was given, at every point of the call.
C8_OneSequenceLabelsKept ==
    /\ labels = in_labels
    /\ pc = "done" =>
         \/ p_choice = 1 /\ p_ops = sequence1
         \/ p_choice = 0 /\ p_ops = sequence2

\* A call with two boxes has returned after running the second sequence.
C8_Witness ==
    /\ pc = "done" /\ p_choice = 0
    /\ Len(p_ops) = 14 /\ Len(in_labels) = 2

\* C10: every transform is given an image in the representation it needs:
\* brightness and contrast a float32 RGB image, saturation and hue a float32
\* HSV image, a colour conversion a 3-channel uint8 image in its source colour
\* space; no TypeMismatch arises and the image returned is 3-channel uint8
\* RGB.
C10_Representations ==
    /\ ~p_err
    /\ (pc = "photo_loop" /\ p_idx <= Len(ChooseSequence(p_choice))) =>
         LET op == ChooseSequence(p_choice)[p_idx]
         IN  /\ op \in {"random_brightness", "random_contrast"} =>
                   image.dtype = "float32" /\ image.space = "RGB"
             /\ op \in {"random_saturation", "random_hue"} =>
                   image.dtype = "float32" /\ image.space = "HSV"
             /\ op = "convert_RGB_to_HSV" =>
                   image.dtype = "uint8" /\ image.ch = 3 /\ image.space = "RGB"
             /\ op = "convert_HSV_to_RGB" =>
                   image.dtype = "uint8" /\ image.ch = 3 /\ image.space = "HSV"
    /\ pc = "done" =>
         image.ch = 3 /\ image.dtype = "uint8" /\ image.space = "RGB"

\* A 1-channel input has reached the late contrast step of the second
\* sequence as a float32 RGB image.
C10_Witness ==
    /\ pc = "photo_loop" /\ in_image.ch = 1 /\ p_choice = 0
    /\ p_idx = 12 /\ image.dtype = "float32"

====
